---------------------------- MODULE Spec2Model ----------------------------
(***************************************************************************)
(* A model of weex/makobot: the conversation loop of agent/driver.py, the  *)
(* tool registry of agent/tools/__init__.py, the git/PR/CI handlers of     *)
(* agent/tools/github.py and the restricted shell of agent/tools/shell.py. *)
(*                                                                         *)
(* Python str values are TLA+ strings, except where the code looks inside  *)
(* a string (strip, lower, startswith, shlex.split): there a string is a   *)
(* sequence of one-character strings, and Join turns it back into a        *)
(* string.  Python's None is the value None below.                         *)
(***************************************************************************)
EXTENDS Integers, Sequences, FiniteSets, TLC

VARIABLES
    \* ---- agent/driver.py, main() ----
    pc,           \* where main() is: "prompt" (blocked in input, line 85),
                  \* "request" (blocked in client.chat.completions.create, line 104),
                  \* "tool" (in the for loop of line 162, about to run tool_calls[tc_idx]),
                  \* "delay" (in time.sleep(5), line 202), "done" (main returned),
                  \* "killed" (an exception left main)
    messages,     \* the conversation history, line 74 (the system message is left out)
    turn_count,   \* line 81
    user_input,   \* line 85: input("> ").strip()
    tool_calls,   \* msg["tool_calls"] of the response being handled, lines 122-132
    tc_idx,       \* position of the for loop of line 162 in tool_calls
    saves,        \* how many times save_goals ran, lines 43-45
    err,          \* the exception e the handler of line 200 holds (NoError outside it)
    interrupted,  \* whether KeyboardInterrupt was raised
    \* ---- what the environment has done so far ----
    typed,        \* the line the operator typed last, as input() returned it
    api_calls,    \* requests made to the chat-completion API
    api_failed,   \* whether the latest of them failed (the API raised an error)
    received,     \* the tool invocations of the latest response, as the API sent them
    executed,     \* the invocations of that response passed to execute_tool, in order
    last_call,    \* the latest execute_tool call: its name, arguments and outcome
    \* ---- agent/tools/__init__.py, one call of execute_tool ----
    tool_pc,      \* "idle" (no call is being followed), "call", "returned"
    dispatch_call,\* the call: name, args and what the environment does during it
    tool_outcome, \* what the call returned or raised
    \* ---- agent/tools/shell.py, one call of run_safe_shell ----
    shell_pc,     \* "idle", "call", "returned"
    shell_cmd,    \* cmd, the command string, a sequence of characters
    shell_outcome,\* what the call returned or raised, and what it spawned
    \* ---- agent/tools/github.py, one call of github_check_ci_status ----
    ci_pc,        \* "idle", "call", "returned"
    ci_checks,    \* checks: json.loads(result.stdout), line 136
    ci_summary    \* summary_lines, line 138, as it is when the function returns

driverVars == <<pc, messages, turn_count, user_input, tool_calls, tc_idx, saves,
                err, interrupted, typed, api_calls, api_failed, received, executed,
                last_call>>

toolVars == <<tool_pc, dispatch_call, tool_outcome>>

shellVars == <<shell_pc, shell_cmd, shell_outcome>>

ciVars == <<ci_pc, ci_checks, ci_summary>>

vars == <<driverVars, toolVars, shellVars, ciVars>>

-----------------------------------------------------------------------------
(* Bounds of the model *)

\* chat-completion requests in one run
MaxRequests == 2
\* pieces a shell command is put together from
MaxFragments == 3
\* checks `gh pr checks` reports for one PR
MaxChecks == 2

-----------------------------------------------------------------------------
(* Python values *)

None == "<None>"

\* a string of the model from a sequence of characters
RECURSIVE Join(_)
Join(cs) == IF cs = <<>> THEN "" ELSE Head(cs) \o Join(Tail(cs))

Whitespace == {" ", "\t"}

\* str.strip(): leading and trailing whitespace removed
RECURSIVE LStrip(_)
LStrip(cs) == IF cs # <<>> /\ Head(cs) \in Whitespace THEN LStrip(Tail(cs)) ELSE cs

RECURSIVE RStrip(_)
RStrip(cs) ==
    IF cs # <<>> /\ cs[Len(cs)] \in Whitespace
    THEN RStrip(SubSeq(cs, 1, Len(cs) - 1)) ELSE cs

Strip(cs) == RStrip(LStrip(cs))

\* str.lower(), character by character
UpperCase == <<"A", "B", "C", "D", "E", "F", "G", "H", "I", "J", "K", "L", "M",
               "N", "O", "P", "Q", "R", "S", "T", "U", "V", "W", "X", "Y", "Z">>
LowerCase == <<"a", "b", "c", "d", "e", "f", "g", "h", "i", "j", "k", "l", "m",
               "n", "o", "p", "q", "r", "s", "t", "u", "v", "w", "x", "y", "z">>

LowerChar(c) ==
    IF \E i \in DOMAIN UpperCase : UpperCase[i] = c
    THEN LowerCase[CHOOSE i \in DOMAIN UpperCase : UpperCase[i] = c]
    ELSE c

Lower(cs) == [i \in 1..Len(cs) |-> LowerChar(cs[i])]

\* str.startswith
StartsWith(cs, prefix) ==
    Len(prefix) <= Len(cs) /\ SubSeq(cs, 1, Len(prefix)) = prefix


-----------------------------------------------------------------------------
(* What a call does: it returns a value or raises an exception.  spawned is *)
(* the argument vectors of the subprocesses it started, in order, and      *)
(* prompted tells whether it asked the operator for a confirmation.        *)

Return(v, procs) ==
    [raised |-> FALSE, exc |-> "", value |-> v, spawned |-> procs, prompted |-> FALSE]
Raise(e, text) ==
    [raised |-> TRUE, exc |-> e, value |-> text, spawned |-> <<>>, prompted |-> FALSE]
\* the same outcome, reached after an operator prompt (input())
AfterPrompt(outcome) == [outcome EXCEPT !.prompted = TRUE]

\* a JSON object (a Python dict) and a JSON array (a Python list)
Dict(items) == [type |-> "dict", items |-> items]
List(elems) == [type |-> "list", items |-> elems]
EmptyDict   == Dict([k \in {} |-> ""])

\* dict.get(key, default)
Get(d, key, default) == IF key \in DOMAIN d.items THEN d.items[key] ELSE default

\* Python's True and False
True  == "<True>"
False == "<False>"

\* truthiness with the empty str taken as true
Truthy_EmptyIsTrue(v) == v \notin {None, False}

\* Python truthiness of a str, a bool or None
Truthy(v) == v \notin {"", None, False}

\* The argument payloads the model sends in the model, and json.loads of each:
\* None is not a str (TypeError), text that is no JSON raises JSONDecodeError.
ValidJson ==
    ("{}" :> EmptyDict)
    @@ ("{\"pr_number_or_url\": \"7\"}" :> Dict("pr_number_or_url" :> "7"))
    @@ ("{\"branch_name\": \"feat/x\"}" :> Dict("branch_name" :> "feat/x"))
    @@ ("{\"title\": \"t\", \"body\": \"b\"}" :> Dict(("title" :> "t") @@ ("body" :> "b")))
    @@ ("{\"title\": \"t\"}" :> Dict("title" :> "t"))
    @@ ("{\"cmd\": \"ls\"}" :> Dict("cmd" :> "ls"))
    @@ ("[]" :> List(<<>>))

json_loads(payload) ==
    IF payload = None
    THEN Raise("TypeError", "the JSON object must be str, bytes or bytearray, not NoneType")
    ELSE IF payload \in DOMAIN ValidJson
    THEN Return(ValidJson[payload], <<>>)
    ELSE Raise("JSONDecodeError", "Expecting value")

-----------------------------------------------------------------------------
(* agent/config.py *)

ENABLE_AUTOMERGE == FALSE
CONFIRM_PR_CREATION == TRUE

-----------------------------------------------------------------------------
(* agent/tools/github.py *)

GITHUB_TOOLS == <<"git_create_branch_and_push", "github_create_pr",
                  "github_check_pr_status", "github_check_ci_status">>

\* line 143: check.get("conclusion") or check.get("state", "UNKNOWN")
CheckState(check) ==
    IF Truthy(Get(check, "conclusion", None))
    THEN Get(check, "conclusion", None)
    ELSE Get(check, "state", "UNKNOWN")

GreenStates == {"SUCCESS", "SKIPPED", "NEUTRAL"}

\* lines 139-148: the loop over the checks, as a fold from the left
RECURSIVE CiLoop(_, _)
CiLoop(checks, acc) ==
    IF checks = <<>> THEN acc
    ELSE LET check == Head(checks)
             state == CheckState(check)
         IN  CiLoop(Tail(checks),
                    [summary_lines |-> Append(acc.summary_lines,
                                              "- " \o check.items["name"] \o ": " \o state),
                     all_passed    |-> IF state # "PENDING" /\ state \notin GreenStates
                                       THEN FALSE ELSE acc.all_passed,
                     has_pending   |-> IF state = "PENDING" THEN TRUE ELSE acc.has_pending])

StillWaiting == "\n-> Still waiting for checks to complete"
AllGreen     == "\n-> All checks GREEN"
SomeFailed   == "\n-> Some checks FAILED"

\* lines 150-155 with the first two branches in the other order
CiClassify_GreenFirst(has_pending, all_passed) ==
    IF all_passed THEN AllGreen
    ELSE IF has_pending THEN StillWaiting
    ELSE SomeFailed

\* lines 150-155
CiClassify(has_pending, all_passed) ==
    IF has_pending THEN StillWaiting
    ELSE IF all_passed THEN AllGreen
    ELSE SomeFailed

\* lines 138-157, before the join: the lines of the summary
CiSummaryLines(checks) ==
    LET r == CiLoop(checks, [summary_lines |-> <<"CI Status:">>,
                             all_passed |-> TRUE, has_pending |-> FALSE])
    IN  Append(r.summary_lines, CiClassify(r.has_pending, r.all_passed))

\* "\n".join(lines)
RECURSIVE JoinLines(_)
JoinLines(ls) ==
    IF ls = <<>> THEN ""
    ELSE IF Len(ls) = 1 THEN ls[1]
    ELSE ls[1] \o "\n" \o JoinLines(Tail(ls))


\* What the environment does during one tool call: answer is the line the
\* operator types at a confirmation prompt (EOF when the input is closed),
\* procs the fate of each subprocess the handler starts, in order ("ok": exit
\* code 0, "fail": a non-zero exit code, "missing": no such executable), stdout
\* what `gh pr view` prints ("json" or "garbage") and checks the list
\* `gh pr checks` prints.
EOF == <<"<EOF>">>

\* lines 51 and 76 refusing only on "n", "no" and the empty answer
Confirmed_UnlessNo(answer) == Join(Lower(Strip(answer))) \notin {"n", "no", ""}

\* lines 50-51 and 75-76: input(...).strip().lower() in ("y", "yes")
Confirmed(answer) == Join(Lower(Strip(answer))) \in {"y", "yes"}

\* lines 44-66
git_create_branch_and_push(branch_name, env) ==
    LET checkout == <<"git", "checkout", "-b", branch_name>>
        push     == <<"git", "push", "--set-upstream", "origin", branch_name>>
        run ==
            IF env.procs[1] = "missing"
            THEN Return("Unexpected error: [Errno 2] No such file or directory: 'git'", <<>>)
            ELSE IF env.procs[1] = "fail"
            THEN Return("Git command failed:\n<stderr>", <<checkout>>)
            ELSE IF env.procs[2] = "missing"
            THEN Return("Unexpected error: [Errno 2] No such file or directory: 'git'",
                        <<checkout>>)
            ELSE IF env.procs[2] = "fail"
            THEN Return("Git command failed:\n<stderr>", <<checkout, push>>)
            ELSE Return("Branch '" \o branch_name \o "' created and pushed successfully.\n<stdout>",
                        <<checkout, push>>)
    IN  IF ~Truthy(branch_name) THEN Return("Error: branch_name required", <<>>)
        ELSE IF ~CONFIRM_PR_CREATION THEN run
        ELSE IF env.answer = EOF
        THEN AfterPrompt(Raise("EOFError", "EOF when reading a line"))
        ELSE IF ~Confirmed(env.answer)
        THEN AfterPrompt(Return("Branch creation aborted by user.", <<>>))
        ELSE AfterPrompt(run)

\* lines 69-94 with line 82 testing `not draft` in place of ENABLE_AUTOMERGE
github_create_pr_AutoWhenReady(title, body, base, draft, env) ==
    LET cmd == <<"gh", "pr", "create", "--title", title, "--body", body, "--base", base>>
               \o (IF Truthy(draft) THEN <<"--draft">> ELSE <<"--auto", "--squash">>)
        run ==
            IF env.procs[1] = "missing"
            THEN Return("Error: GitHub CLI 'gh' not found. Please install it.", <<>>)
            ELSE IF env.procs[1] = "fail"
            THEN Return("gh pr create failed:\n<stderr>", <<cmd>>)
            ELSE Return("PR created successfully!\nURL: <stdout>", <<cmd>>)
    IN  IF ~Truthy(title) \/ ~Truthy(body) THEN Return("Error: title and body required", <<>>)
        ELSE IF ~CONFIRM_PR_CREATION THEN run
        ELSE IF env.answer = EOF
        THEN AfterPrompt(Raise("EOFError", "EOF when reading a line"))
        ELSE IF ~Confirmed(env.answer)
        THEN AfterPrompt(Return("PR creation aborted by user.", <<>>))
        ELSE AfterPrompt(run)

\* lines 69-94
github_create_pr(title, body, base, draft, env) ==
    LET cmd == <<"gh", "pr", "create", "--title", title, "--body", body, "--base", base>>
               \o (IF Truthy(draft) THEN <<"--draft">> ELSE <<>>)
               \o (IF ENABLE_AUTOMERGE THEN <<"--auto", "--squash">> ELSE <<>>)
        run ==
            IF env.procs[1] = "missing"
            THEN Return("Error: GitHub CLI 'gh' not found. Please install it.", <<>>)
            ELSE IF env.procs[1] = "fail"
            THEN Return("gh pr create failed:\n<stderr>", <<cmd>>)
            ELSE Return("PR created successfully!\nURL: <stdout>", <<cmd>>)
    IN  IF ~Truthy(title) \/ ~Truthy(body) THEN Return("Error: title and body required", <<>>)
        ELSE IF ~CONFIRM_PR_CREATION THEN run
        ELSE IF env.answer = EOF
        THEN AfterPrompt(Raise("EOFError", "EOF when reading a line"))
        ELSE IF ~Confirmed(env.answer)
        THEN AfterPrompt(Return("PR creation aborted by user.", <<>>))
        ELSE AfterPrompt(run)

\* lines 97-122
github_check_pr_status(pr_number_or_url, env) ==
    LET cmd == <<"gh", "pr", "view", pr_number_or_url, "--json",
                 "state,title,number,merged,mergeable,baseRefName,headRefName,autoMergeRequest">>
    IN  IF ~Truthy(pr_number_or_url) THEN Return("Error: pr_number_or_url required", <<>>)
        ELSE IF env.procs[1] = "missing"
        THEN Return("Error: [Errno 2] No such file or directory: 'gh'", <<>>)
        ELSE IF env.procs[1] = "fail"
        THEN Return("Failed to fetch PR status:\n<stderr>", <<cmd>>)
        ELSE IF env.stdout # "json"
        THEN Return("Failed to parse gh output", <<cmd>>)
        ELSE Return("PR #7 - <title>\nState: OPEN\nMerged: False\nMergeable: MERGEABLE\n"
                    \o "Base <- Head: main <- feat/x\nAuto-merge requested: False", <<cmd>>)

\* lines 125-161
github_check_ci_status(pr_number_or_url, watch, env) ==
    LET cmd == <<"gh", "pr", "checks", pr_number_or_url, "--json", "name,state,conclusion">>
               \o (IF Truthy(watch) THEN <<"--watch">> ELSE <<>>)
    IN  IF ~Truthy(pr_number_or_url) THEN Return("Error: pr_number_or_url required", <<>>)
        ELSE IF env.procs[1] = "missing"
        THEN Return("Error checking CI: [Errno 2] No such file or directory: 'gh'", <<>>)
        ELSE IF env.procs[1] = "fail"
        THEN Return("CI check failed:\n<stderr>", <<cmd>>)
        ELSE Return(JoinLines(CiSummaryLines(env.checks)), <<cmd>>)

\* lines 13-39
execute_github_tool(tool_name, args, env) ==
    IF tool_name \notin {GITHUB_TOOLS[i] : i \in DOMAIN GITHUB_TOOLS}
    THEN Return("Unknown github tool: " \o tool_name, <<>>)
    ELSE IF args.type # "dict"
    THEN Raise("AttributeError", "'list' object has no attribute 'get'")
    ELSE IF tool_name = "git_create_branch_and_push"
    THEN git_create_branch_and_push(Get(args, "branch_name", ""), env)
    ELSE IF tool_name = "github_create_pr"
    THEN github_create_pr(Get(args, "title", ""), Get(args, "body", ""),
                          Get(args, "base", "main"), Get(args, "draft", True), env)
    ELSE IF tool_name = "github_check_pr_status"
    THEN github_check_pr_status(Get(args, "pr_number_or_url", ""), env)
    ELSE github_check_ci_status(Get(args, "pr_number_or_url", ""),
                                Get(args, "watch", False), env)

-----------------------------------------------------------------------------
(* agent/tools/__init__.py *)

\* line 7: the catalog sent to the model, by name
ALL_TOOLS == GITHUB_TOOLS

ToolNames(tools) == {tools[i] : i \in DOMAIN tools}

NotImplemented(name) == "Tool '" \o name \o "' not implemented yet."

\* lines 9-18.  The module defines neither run_shell nor write_file, so the
\* first two branches raise NameError when the name is looked up.
execute_tool(name, args, env) ==
    IF name = "run_shell"
    THEN Raise("NameError", "name 'run_shell' is not defined")
    ELSE IF name = "write_file"
    THEN Raise("NameError", "name 'write_file' is not defined")
    ELSE IF name \in ToolNames(GITHUB_TOOLS)
    THEN execute_github_tool(name, args, env)
    ELSE Return(NotImplemented(name), <<>>)


-----------------------------------------------------------------------------
(* agent/driver.py *)

Msg(role, content, name, calls) ==
    [role |-> role, content |-> content, name |-> name, tool_calls |-> calls]

SYSTEM_PROMPT == "<SYSTEM_PROMPT>"

NoError == [exc |-> "", line |-> 0]
NoCall  == [name |-> "", args |-> EmptyDict, outcome |-> Return("", <<>>)]

\* line 86 without .lower(): the comparison is case-sensitive
IsQuit_CaseSensitive(stripped) == Join(stripped) \in {"quit", "exit", "q"}

\* line 86: user_input.lower() in ("quit", "exit", "q"), user_input stripped
IsQuit(stripped) == Join(Lower(stripped)) \in {"quit", "exit", "q"}

\* lines 117-132: the assistant message built from the response; the key
\* tool_calls is set only for a non-empty list (<<>> stands for no key)
AssistantMsg(response) ==
    Msg("assistant", response.content, None, response.tool_calls)

\* line 150: msg["content"][:120] + "..." (the key "content" is always in msg);
\* None is not subscriptable
ResponseSnippet(msg) ==
    IF msg.content = None
    THEN Raise("TypeError", "'NoneType' object is not subscriptable")
    ELSE Return(msg.content \o "...", <<>>)

\* the exceptions of the model; each is a subclass of Exception
Exceptions == {"APIError", "TypeError", "JSONDecodeError", "EOFError", "NameError",
               "AttributeError", "ValueError"}

\* line 182 catching only subprocess.CalledProcessError
CaughtAtCallSite_ProcessErrorsOnly(exc) == exc \in {"CalledProcessError"}

\* line 182: except Exception
CaughtAtCallSite(exc) == exc \in Exceptions

\* lines 168-184: the result of one tool call, an exception of the handler
\* turned into text
ToolResult(outcome) ==
    IF outcome.raised THEN "Tool execution failed: " \o outcome.value
    ELSE outcome.value

\* lines 200-202 re-raising the exception after printing it
OnLoopError_Reraise(exc, line) ==
    /\ err' = [exc |-> exc, line |-> line]
    /\ pc' = "killed"

\* lines 200-202: except Exception, then time.sleep(5)
OnLoopError(exc, line) ==
    /\ err' = [exc |-> exc, line |-> line]
    /\ pc' = "delay"

\* lines 196-199, and an interrupt that arrives outside the try block, in the
\* handler of line 200: nothing catches it
OnInterrupt ==
    /\ interrupted' = TRUE
    /\ IF pc = "delay"
       THEN pc' = "killed" /\ saves' = saves
       ELSE pc' = "done" /\ saves' = saves + 1

\* ---- what the environment may send ----

\* lines the operator may type
Lines == {
    <<"q", "u", "i", "t">>, <<" ", "E", "x", "i", "t", " ">>, <<"Q">>,
    <<>>, <<" ", "\t">>,
    <<" ", "h", "i">> }

Invocation(name, arguments) == [name |-> name, arguments |-> arguments]

\* tool invocations the model may ask for: a tool of the catalog, a name
\* execute_tool routes to an undefined function, a name it does not know, and
\* the catalog's tool with no argument payload and with one that is not JSON
PrArgs == "{\"pr_number_or_url\": \"7\"}"
Invocations == {
    Invocation("github_check_pr_status", PrArgs),
    Invocation("run_shell", "{\"cmd\": \"ls\"}"),
    Invocation("run_safe_shell", "{\"cmd\": \"ls\"}"),
    Invocation("github_check_pr_status", None),
    Invocation("github_check_pr_status", "{bad") }

ToolCallLists ==
    {<<>>} \cup {<<a>> : a \in Invocations} \cup {<<a, b>> : a, b \in Invocations}

\* responses of the chat-completion API: optional text, optional tool invocations
Responses ==
    {[content |-> c, tool_calls |-> tcs] : c \in {None, "On it."}, tcs \in ToolCallLists}

Env(answer, procs, stdout, checks) ==
    [answer |-> answer, procs |-> procs, stdout |-> stdout, checks |-> checks]

\* what may happen around a tool call of the loop
DriverEnvs == {Env(<<"y">>, <<"ok", "ok">>, "json", <<>>)}

\* ---- the loop ----

DriverInit ==
    /\ pc = "prompt"
    /\ messages = <<Msg("system", SYSTEM_PROMPT, None, <<>>)>>
    /\ turn_count = 0
    /\ user_input = <<>>
    /\ tool_calls = <<>>
    /\ tc_idx = 0
    /\ saves = 0
    /\ err = NoError
    /\ interrupted = FALSE
    /\ typed = <<>>
    /\ api_calls = 0
    /\ api_failed = FALSE
    /\ received = <<>>
    /\ executed = <<>>
    /\ last_call = NoCall

\* lines 85-94: one line read from the operator
ReadLine ==
    /\ pc = "prompt"
    /\ \E line \in Lines :
        /\ typed' = line
        /\ user_input' = Strip(line)
        /\ IF IsQuit(Strip(line))
           THEN /\ saves' = saves + 1
                /\ pc' = "done"
                /\ UNCHANGED <<messages, turn_count, received, executed>>
           ELSE IF Strip(line) = <<>>
           THEN UNCHANGED <<pc, saves, messages, turn_count, received, executed>>
           ELSE /\ messages' = Append(messages, Msg("user", Join(Strip(line)), None, <<>>))
                /\ turn_count' = turn_count + 1
                /\ pc' = "request"
                /\ received' = <<>>
                /\ executed' = <<>>
                /\ saves' = saves
    /\ UNCHANGED <<tool_calls, tc_idx, err, interrupted, api_calls, api_failed, last_call>>
    /\ UNCHANGED <<toolVars, shellVars, ciVars>>

\* line 85: input() raises EOFError when the operator's input is closed
InputClosed ==
    /\ pc = "prompt"
    /\ OnLoopError("EOFError", 85)
    /\ UNCHANGED <<messages, turn_count, user_input, tool_calls, tc_idx, saves,
                   interrupted, typed, api_calls, api_failed, received, executed, last_call>>
    /\ UNCHANGED <<toolVars, shellVars, ciVars>>

\* lines 101-160: one request to the API, and what the loop does with the answer
ModelRequest ==
    /\ pc = "request"
    /\ api_calls < MaxRequests
    /\ api_calls' = api_calls + 1
    /\ \/ /\ api_failed' = TRUE
          /\ OnLoopError("APIError", 104)
          /\ UNCHANGED <<messages, tool_calls, tc_idx, received, executed>>
       \/ \E response \in Responses :
            LET msg == AssistantMsg(response) IN
            /\ api_failed' = FALSE
            /\ received' = response.tool_calls
            /\ executed' = <<>>
            /\ IF ResponseSnippet(msg).raised
               THEN /\ OnLoopError(ResponseSnippet(msg).exc, 150)
                    /\ UNCHANGED <<messages, tool_calls, tc_idx>>
               ELSE /\ messages' = Append(messages, msg)
                    /\ tool_calls' = msg.tool_calls
                    /\ IF msg.tool_calls = <<>>
                       THEN pc' = "prompt" /\ tc_idx' = 0
                       ELSE pc' = "tool" /\ tc_idx' = 1
                    /\ err' = err
    /\ UNCHANGED <<turn_count, user_input, saves, interrupted, typed, last_call>>
    /\ UNCHANGED <<toolVars, shellVars, ciVars>>

\* lines 162-190: one pass of the for loop over msg["tool_calls"]
RunTool ==
    /\ pc = "tool"
    /\ LET tool_call == tool_calls[tc_idx]
           func_name == tool_call.name
           parsed    == json_loads(tool_call.arguments)
       IN  IF parsed.raised
           THEN /\ OnLoopError(parsed.exc, 164)
                /\ UNCHANGED <<messages, tc_idx, executed, last_call>>
           ELSE \E env \in DriverEnvs :
                LET outcome == execute_tool(func_name, parsed.value, env) IN
                /\ last_call' = [name |-> func_name, args |-> parsed.value, outcome |-> outcome]
                /\ executed' = Append(executed, tool_call)
                /\ IF outcome.raised /\ ~CaughtAtCallSite(outcome.exc)
                   THEN /\ OnLoopError(outcome.exc, 174)
                        /\ UNCHANGED <<messages, tc_idx>>
                   ELSE /\ messages' = Append(messages,
                                              Msg("tool", ToolResult(outcome), func_name, <<>>))
                        /\ IF tc_idx < Len(tool_calls)
                           THEN tc_idx' = tc_idx + 1 /\ pc' = "tool"
                           ELSE tc_idx' = tc_idx /\ pc' = "request"
                        /\ err' = err
    /\ UNCHANGED <<turn_count, user_input, tool_calls, saves, interrupted, typed,
                   api_calls, api_failed, received>>
    /\ UNCHANGED <<toolVars, shellVars, ciVars>>

\* line 202: time.sleep(5) returns and the loop prompts again
DelayOver ==
    /\ pc = "delay"
    /\ pc' = "prompt"
    /\ err' = NoError
    /\ UNCHANGED <<messages, turn_count, user_input, tool_calls, tc_idx, saves,
                   interrupted, typed, api_calls, api_failed, received, executed, last_call>>
    /\ UNCHANGED <<toolVars, shellVars, ciVars>>

\* the operator's interrupt (KeyboardInterrupt), wherever main() is blocked
Interrupt ==
    /\ pc \in {"prompt", "request", "tool", "delay"}
    /\ OnInterrupt
    /\ UNCHANGED <<messages, turn_count, user_input, tool_calls, tc_idx, err,
                   typed, api_calls, api_failed, received, executed, last_call>>
    /\ UNCHANGED <<toolVars, shellVars, ciVars>>

-----------------------------------------------------------------------------
(* agent/tools/shell.py *)

ALLOWED_PREFIXES == <<
    <<"l", "s">>, <<"d", "i", "r">>, <<"t", "r", "e", "e">>, <<"f", "i", "n", "d">>,
    <<"g", "r", "e", "p">>, <<"r", "g">>, <<"c", "a", "t">>, <<"h", "e", "a", "d">>,
    <<"t", "a", "i", "l">>, <<"w", "c">>,
    <<"g", "i", "t", " ", "s", "t", "a", "t", "u", "s">>,
    <<"g", "i", "t", " ", "d", "i", "f", "f">>,
    <<"g", "i", "t", " ", "l", "o", "g">>,
    <<"g", "i", "t", " ", "b", "r", "a", "n", "c", "h">>,
    <<"g", "i", "t", " ", "r", "e", "m", "o", "t", "e">> >>

Quotes == {"\"", "'"}

\* shlex.split(cmd): whitespace separates tokens, a quoted stretch belongs to
\* the token around it, and a quote left open raises ValueError.  quote is the
\* open quote ("" outside quotes), token the characters of the token being read
\* and intoken whether one is being read (an empty quoted token is a token).
\* The commands of the model hold no backslash.
RECURSIVE ShlexScan(_, _, _, _, _)
ShlexScan(cs, quote, token, intoken, tokens) ==
    IF cs = <<>>
    THEN IF quote # "" THEN Raise("ValueError", "No closing quotation")
         ELSE Return(IF intoken THEN Append(tokens, Join(token)) ELSE tokens, <<>>)
    ELSE LET c == Head(cs) IN
         IF quote # ""
         THEN IF c = quote
              THEN ShlexScan(Tail(cs), "", token, TRUE, tokens)
              ELSE ShlexScan(Tail(cs), quote, Append(token, c), TRUE, tokens)
         ELSE IF c \in Whitespace
         THEN ShlexScan(Tail(cs), "", <<>>, FALSE,
                        IF intoken THEN Append(tokens, Join(token)) ELSE tokens)
         ELSE IF c \in Quotes
         THEN ShlexScan(Tail(cs), c, token, TRUE, tokens)
         ELSE ShlexScan(Tail(cs), "", Append(token, c), TRUE, tokens)

shlex_split(cs) == ShlexScan(cs, "", <<>>, FALSE, <<>>)

\* line 41 with the operands of startswith exchanged
Allowed_PrefixOfPrefix(cs) ==
    \E i \in DOMAIN ALLOWED_PREFIXES : StartsWith(ALLOWED_PREFIXES[i], Strip(cs))

\* line 41: any(cmd.strip().startswith(prefix) for prefix in ALLOWED_PREFIXES)
Allowed(cs) ==
    \E i \in DOMAIN ALLOWED_PREFIXES : StartsWith(Strip(cs), ALLOWED_PREFIXES[i])

Refusal(cs) ==
    "Error: Command not allowed for safety reasons.\nAllowed prefixes: <ALLOWED_PREFIXES>\n"
    \o "Attempted: " \o Join(cs)

\* lines 28-79.  fate is what becomes of the subprocess: "ok" (exit code 0),
\* "fail" (another exit code), "timeout", or "missing" (no such executable, and
\* so no process).
run_safe_shell(cs, fate) ==
    IF Strip(cs) = <<>> THEN Return("Error: empty command", <<>>)
    ELSE IF shlex_split(cs).raised THEN shlex_split(cs)
    ELSE LET cmd_list   == shlex_split(cs).value
             first_word == cmd_list[1]
         IN  IF ~Allowed(cs) THEN Return(Refusal(cs), <<>>)
             ELSE IF fate = "missing"
             THEN Return("Command not found: " \o first_word, <<>>)
             ELSE IF fate = "timeout"
             THEN Return("Command timed out after 10 seconds: " \o Join(cs), <<cmd_list>>)
             ELSE IF fate = "fail"
             THEN Return("Command failed (rc=1):\nstdout:\n<stdout>\nreturn code: 1",
                         <<cmd_list>>)
             ELSE Return("stdout:\n<stdout>\nreturn code: 0", <<cmd_list>>)

Fates == {"ok", "fail", "timeout", "missing"}

\* the pieces the commands of the model are put together from
Fragments == {
    <<"l", "s">>, <<"o", "f">>, <<"g", "i", "t">>, <<"s", "t", "a", "t", "u", "s">>,
    <<"p", "u", "s", "h">>, <<"r", "m">>, <<" ">>, <<"\"">>, <<"x">> }

RECURSIVE CommandsOf(_)
CommandsOf(n) ==
    IF n = 0 THEN {<<>>}
    ELSE CommandsOf(n - 1) \cup {c \o f : c \in CommandsOf(n - 1), f \in Fragments}

Commands == CommandsOf(MaxFragments)

NotCalled == Return("<not called>", <<>>)

ShellIdle == shell_pc = "idle" /\ shell_cmd = <<>> /\ shell_outcome = NotCalled

ShellInit ==
    /\ shell_pc = "call"
    /\ shell_cmd \in Commands
    /\ shell_outcome = NotCalled

\* one call of run_safe_shell, from entry to return or raise
RunSafeShell ==
    /\ shell_pc = "call"
    /\ \E fate \in Fates : shell_outcome' = run_safe_shell(shell_cmd, fate)
    /\ shell_pc' = "returned"
    /\ UNCHANGED <<shell_cmd, driverVars, toolVars, ciVars>>

-----------------------------------------------------------------------------
(* one call of github_check_ci_status whose `gh pr checks` succeeded *)

CheckNames == {"build", "test"}
Conclusions == {None, "", "SUCCESS", "FAILURE"}
States == {None, "PENDING", "SUCCESS", "SKIPPED", "NEUTRAL", "FAILURE", "IN_PROGRESS"}

\* one element of the list `gh pr checks --json name,state,conclusion` prints;
\* None stands for a key the element does not have
Check(name, state, conclusion) ==
    Dict([k \in {"name"} \cup (IF state = None THEN {} ELSE {"state"})
                         \cup (IF conclusion = None THEN {} ELSE {"conclusion"}) |->
            IF k = "name" THEN name ELSE IF k = "state" THEN state ELSE conclusion])

AllChecks == {Check(n, st, c) : n \in CheckNames, st \in States, c \in Conclusions}

RECURSIVE CheckLists(_)
CheckLists(n) ==
    IF n = 0 THEN {<<>>}
    ELSE CheckLists(n - 1) \cup {Append(l, c) : l \in CheckLists(n - 1), c \in AllChecks}

CiIdle == ci_pc = "idle" /\ ci_checks = <<>> /\ ci_summary = <<>>

CiInit ==
    /\ ci_pc = "call"
    /\ ci_checks \in CheckLists(MaxChecks)
    /\ ci_summary = <<>>

\* lines 136-157 of one call
CheckCiStatus ==
    /\ ci_pc = "call"
    /\ ci_summary' = CiSummaryLines(ci_checks)
    /\ ci_pc' = "returned"
    /\ UNCHANGED <<ci_checks, driverVars, toolVars, shellVars>>

-----------------------------------------------------------------------------
(* one call of execute_tool *)

DispatchNames ==
    ToolNames(ALL_TOOLS) \cup {"run_shell", "write_file", "run_safe_shell", "list_goals", ""}

\* argument maps with a required field empty, null or left out, and maps that
\* set the optional fields, option-like text among them
FieldArgs == {
    Dict("branch_name" :> ""),
    Dict("branch_name" :> None),
    Dict(("title" :> "") @@ ("body" :> "b")),
    Dict("body" :> "b"),
    Dict("pr_number_or_url" :> ""),
    Dict(("title" :> "--auto") @@ ("body" :> "--squash") @@ ("base" :> "--auto")
         @@ ("draft" :> False)),
    Dict(("title" :> "t") @@ ("body" :> "b") @@ ("base" :> "dev") @@ ("draft" :> True)),
    Dict(("pr_number_or_url" :> "7") @@ ("watch" :> True)) }

DispatchArgs == {ValidJson[p] : p \in DOMAIN ValidJson} \cup FieldArgs

\* what the operator may type at a confirmation prompt
Answers == {
    <<"y">>, <<"Y">>, <<" ", "Y", "e", "s", " ">>, <<"y", "e", "s">>,
    <<"n">>, <<>>, <<"y", "y">>, <<"y", "e">>, <<"o", "k">>, <<"y", " ", "e", "s">> }

DispatchEnvs ==
    {Env(a, <<p, q>>, "json", <<>>) :
        a \in Answers \cup {EOF}, p \in {"ok", "fail", "missing"}, q \in {"ok", "fail"}}

ToolIdle ==
    /\ tool_pc = "idle"
    /\ dispatch_call = [name |-> "", args |-> EmptyDict, env |-> Env(<<>>, <<>>, "", <<>>)]
    /\ tool_outcome = NotCalled

ToolInit ==
    /\ tool_pc = "call"
    /\ dispatch_call \in [name : DispatchNames, args : DispatchArgs, env : DispatchEnvs]
    /\ tool_outcome = NotCalled

\* one call of execute_tool, from entry to return or raise
ExecuteTool ==
    /\ tool_pc = "call"
    /\ tool_outcome' = execute_tool(dispatch_call.name, dispatch_call.args, dispatch_call.env)
    /\ tool_pc' = "returned"
    /\ UNCHANGED <<dispatch_call, driverVars, shellVars, ciVars>>

-----------------------------------------------------------------------------
(* The specifications *)

\* the conversation loop
Init == DriverInit /\ ToolIdle /\ ShellIdle /\ CiIdle

Next ==
    \/ ReadLine
    \/ InputClosed
    \/ ModelRequest
    \/ RunTool
    \/ DelayOver
    \/ Interrupt

Spec == Init /\ [][Next]_vars

\* one call of execute_tool, for every name, argument map and environment
InitDispatch == ToolInit /\ DriverInit /\ ShellIdle /\ CiIdle
NextDispatch == ExecuteTool
SpecDispatch == InitDispatch /\ [][NextDispatch]_vars

\* one call of run_safe_shell, for every command
InitShell == ShellInit /\ DriverInit /\ ToolIdle /\ CiIdle
NextShell == RunSafeShell
SpecShell == InitShell /\ [][NextShell]_vars

\* one call of github_check_ci_status, for every list of checks
InitCi == CiInit /\ DriverInit /\ ToolIdle /\ ShellIdle
NextCi == CheckCiStatus
SpecCi == InitCi /\ [][NextCi]_vars

-----------------------------------------------------------------------------
(* The claims *)

\* C1: for every tool name that is not in the catalog sent to the model
\* (ALL_TOOLS), and for any argument map, execute_tool returns the string
\* "Tool '<name>' not implemented yet." and does not raise.
C1_UnlistedNameNotImplemented ==
    (tool_pc = "returned" /\ dispatch_call.name \notin ToolNames(ALL_TOOLS))
        => /\ ~tool_outcome.raised
           /\ tool_outcome.value = NotImplemented(dispatch_call.name)

\* C2: whenever the loop has finished with a model response (it is about to
\* make the next request, or waits for the operator, or sleeps after an
\* error), every invocation the response carried was executed exactly once, in
\* the order received, and the history ends with one tool-role message per
\* invocation, in that order and with the invocation's tool name.
C2_EachInvocationRunOnceInOrder ==
    pc \in {"request", "prompt", "delay"} =>
        /\ executed = received
        /\ Len(messages) >= Len(received)
        /\ \A i \in 1..Len(received) :
              LET m == messages[Len(messages) - Len(received) + i]
              IN  m.role = "tool" /\ m.name = received[i].name

\* C3: when the process has ended after an operator interrupt, save_goals has
\* been called.
C3_InterruptSavesGoals ==
    (interrupted /\ pc \in {"done", "killed"}) => saves >= 1

\* the lines of the model that, trimmed and lower-cased, are quit, exit or q
QuitLines == {<<"q", "u", "i", "t">>, <<" ", "E", "x", "i", "t", " ">>, <<"Q">>}

\* C4: a step that reads quit, exit or q (trimmed, in any case) from the
\* operator makes no model request, appends nothing to the history, saves goal
\* memory once and ends the loop.
C4_QuitSavesOnceAndStops ==
    [][(pc = "prompt" /\ ~interrupted' /\ err' = err /\ typed' \in QuitLines)
          => /\ api_calls' = api_calls
             /\ messages' = messages
             /\ saves' = saves + 1
             /\ saves' = 1
             /\ pc' = "done"]_vars

\* the operator quit at a prompt that followed a completed request
C4_Witness ==
    /\ pc = "done" /\ ~interrupted
    /\ typed = <<" ", "E", "x", "i", "t", " ">>
    /\ turn_count >= 1 /\ api_calls >= 1
    /\ saves = 1

\* a tool-role message that reports a raised error
FailedToolMsg(m) ==
    /\ m.role = "tool"
    /\ m.content \in {"Tool execution failed: name 'run_shell' is not defined"}

\* C5: a step that executes a tool which raises an error appends the tool-role
\* message "Tool execution failed: <error>" with the tool's name, and goes on
\* to the next invocation of the response, or to the next model request after
\* the last one: the turn is not abandoned.
C5_ToolErrorIsFedBack ==
    [][(pc = "tool" /\ executed' # executed /\ last_call'.outcome.raised)
          => /\ messages' = Append(messages,
                    Msg("tool", "Tool execution failed: " \o last_call'.outcome.value,
                        tool_calls[tc_idx].name, <<>>))
             /\ IF tc_idx < Len(tool_calls)
                THEN pc' = "tool" /\ tc_idx' = tc_idx + 1
                ELSE pc' = "request"]_vars

\* a tool raised, the invocation after it was executed too, and the model was
\* called again and answered
C5_Witness ==
    \E i \in DOMAIN messages :
        /\ FailedToolMsg(messages[i])
        /\ i + 2 <= Len(messages)
        /\ messages[i + 1].role = "tool"
        /\ messages[i + 2].role = "assistant"

\* C6: a step of the for loop at an invocation whose argument payload is
\* absent or is no JSON dispatches the tool with an empty argument map,
\* appends a tool-role message with the tool's name, and does not abandon the
\* turn.
C6_BadPayloadMeansEmptyArgs ==
    [][(/\ pc = "tool" /\ ~interrupted'
        /\ (tool_calls[tc_idx].arguments = None
            \/ tool_calls[tc_idx].arguments \notin DOMAIN ValidJson))
          => /\ last_call'.name = tool_calls[tc_idx].name
             /\ last_call'.args = EmptyDict
             /\ Len(messages') = Len(messages) + 1
             /\ messages'[Len(messages')].role = "tool"
             /\ messages'[Len(messages')].name = tool_calls[tc_idx].name
             /\ pc' # "delay"]_vars

\* C7: a failed model request does not end the process: the error is caught,
\* nothing is appended and the loop sleeps; from the sleep the loop goes to
\* the prompt without another request, and no request is made while the
\* operator is being prompted; only an interrupt ends the process abnormally.
C7_FailedRequestReprompts ==
    [][/\ (pc = "request" /\ api_calls' = api_calls + 1 /\ api_failed')
             => (pc' = "delay" /\ messages' = messages)
       /\ (pc = "delay" /\ ~interrupted')
             => (pc' = "prompt" /\ api_calls' = api_calls /\ messages' = messages)
       /\ (pc = "prompt") => (api_calls' = api_calls)
       /\ (pc' = "killed") => interrupted']_vars

\* a request failed, the loop slept, the operator typed the next line and the
\* loop is about to make the request of the new turn
C7_Witness ==
    /\ api_failed /\ api_calls = 1
    /\ pc = "request" /\ turn_count = 2
    /\ err = NoError /\ ~interrupted

\* the allowed prefixes, as the claim lists them
AllowedPrefixStrings == {"ls", "dir", "tree", "find", "grep", "rg", "cat", "head", "tail",
                         "wc", "git status", "git diff", "git log", "git branch",
                         "git remote"}

\* the trimmed text of the command starts with one of them
StartsAllowed(cs) ==
    \E k \in 0..Len(Strip(cs)) : Join(SubSeq(Strip(cs), 1, k)) \in AllowedPrefixStrings

\* the command leaves a quote open (the commands of the model hold one kind of
\* quote, so this is an odd number of them)
OpenQuote(cs) == Cardinality({i \in DOMAIN cs : cs[i] = "\""}) % 2 = 1

ReadOnlyPrograms == {"ls", "dir", "tree", "find", "grep", "rg", "cat", "head", "tail", "wc"}
ReadOnlyGit == {"status", "diff", "log", "branch", "remote"}

\* C9: every subprocess run_safe_shell spawns runs one of the listed programs:
\* its first token is one of ls, dir, tree, find, grep, rg, cat, head, tail, wc,
\* or it is git with second token status, diff, log, branch or remote.
C9_OnlyListedProgramsRun ==
    \A i \in DOMAIN shell_outcome.spawned :
        LET argv == shell_outcome.spawned[i]
        IN  \/ argv[1] \in ReadOnlyPrograms
            \/ (argv[1] = "git" /\ Len(argv) >= 2 /\ argv[2] \in ReadOnlyGit)

\* the state a check counts with, as the claim reads it: its conclusion when
\* it has a non-empty one, else its state, else UNKNOWN
ReportedState(check) ==
    IF "conclusion" \in DOMAIN check.items /\ check.items["conclusion"] # ""
    THEN check.items["conclusion"]
    ELSE IF "state" \in DOMAIN check.items THEN check.items["state"]
    ELSE "UNKNOWN"

Classifications == {StillWaiting, AllGreen, SomeFailed}

\* C10: for every list of checks, the summary of github_check_ci_status holds
\* the header, then one line per check in the order received, then exactly one
\* classification line: "Still waiting" if any check is PENDING, otherwise
\* "All checks GREEN" if every check's state is SUCCESS, SKIPPED or NEUTRAL,
\* otherwise "Some checks FAILED".
C10_CiClassification ==
    ci_pc = "returned" =>
        LET n == Len(ci_checks) IN
        /\ Len(ci_summary) = n + 2
        /\ \A i \in 1..n :
              ci_summary[i + 1] = "- " \o ci_checks[i].items["name"] \o ": "
                                       \o ReportedState(ci_checks[i])
        /\ ci_summary[n + 2] =
              IF \E i \in 1..n : ReportedState(ci_checks[i]) = "PENDING"
              THEN StillWaiting
              ELSE IF \A i \in 1..n :
                         ReportedState(ci_checks[i]) \in {"SUCCESS", "SKIPPED", "NEUTRAL"}
              THEN AllGreen
              ELSE SomeFailed
        /\ Cardinality({i \in DOMAIN ci_summary : ci_summary[i] \in Classifications}) = 1

\* two checks, the first failed and the second pending: still waiting
C10_Witness ==
    /\ ci_pc = "returned"
    /\ Len(ci_checks) = 2
    /\ ReportedState(ci_checks[1]) = "FAILURE"
    /\ ReportedState(ci_checks[2]) = "PENDING"
    /\ ci_summary[4] = StillWaiting

-----------------------------------------------------------------------------
(* Required fields of the git, PR and CI tools *)

FieldTools ==
    {"git_create_branch_and_push", "github_create_pr",
     "github_check_pr_status", "github_check_ci_status"}

RequiredFields(tool) ==
    IF tool = "git_create_branch_and_push" THEN {"branch_name"}
    ELSE IF tool = "github_create_pr" THEN {"title", "body"}
    ELSE {"pr_number_or_url"}

RequiredError(tool) ==
    IF tool = "git_create_branch_and_push" THEN "Error: branch_name required"
    ELSE IF tool = "github_create_pr" THEN "Error: title and body required"
    ELSE "Error: pr_number_or_url required"

\* a required field is left out of the argument map, is null or is empty text
MissingRequired(tool, args) ==
    \E f \in RequiredFields(tool) :
        f \notin DOMAIN args.items \/ args.items[f] \in {"", None}

\* C11: when one of the four git/PR/CI tools is called with an argument map in
\* which a required field (branch_name; title or body; pr_number_or_url) is
\* missing or empty, the call returns the error text that names the required
\* field, raises nothing and starts no subprocess.
C11_MissingFieldIsReturnedError ==
    (/\ tool_pc = "returned"
     /\ dispatch_call.name \in FieldTools
     /\ dispatch_call.args.type = "dict"
     /\ MissingRequired(dispatch_call.name, dispatch_call.args))
    => /\ ~tool_outcome.raised
       /\ tool_outcome.value = RequiredError(dispatch_call.name)
       /\ tool_outcome.spawned = <<>>

\* github_create_pr called with a title and no body
C11_Witness ==
    /\ tool_pc = "returned"
    /\ dispatch_call.name = "github_create_pr"
    /\ dispatch_call.args = Dict("title" :> "t")
    /\ tool_outcome = Return("Error: title and body required", <<>>)

-----------------------------------------------------------------------------
(* Options of the command github_create_pr runs *)

\* the options of gh pr create that take the next argument as their value
ValueOptions == {"--title", "--body", "--base"}

\* the arguments of a command line other than the values of its options,
\* read from the left as gh reads them
RECURSIVE ArgsButValues(_)
ArgsButValues(argv) ==
    IF argv = <<>> THEN {}
    ELSE IF Head(argv) \in ValueOptions /\ Len(argv) >= 2
    THEN {Head(argv)} \cup ArgsButValues(Tail(Tail(argv)))
    ELSE {Head(argv)} \cup ArgsButValues(Tail(argv))

\* C12: with the automerge flag of the configuration disabled, no command
\* github_create_pr runs carries the option --auto or the option --squash,
\* whatever title, body, base and draft the caller supplies (text that reads
\* "--auto" or "--squash" included: it is passed as the value of --title,
\* --body or --base, not as an option).
C12_NoAutomergeOptions ==
    (/\ ~ENABLE_AUTOMERGE
     /\ tool_pc = "returned"
     /\ dispatch_call.name = "github_create_pr")
    => \A i \in DOMAIN tool_outcome.spawned :
          ArgsButValues(tool_outcome.spawned[i]) \cap {"--auto", "--squash"} = {}

\* a pull request that is not a draft, with option-like text in every field,
\* confirmed by the operator: gh pr create is run
C12_Witness ==
    /\ ~ENABLE_AUTOMERGE
    /\ tool_pc = "returned"
    /\ dispatch_call.name = "github_create_pr"
    /\ dispatch_call.args.type = "dict"
    /\ Get(dispatch_call.args, "draft", True) = False
    /\ Get(dispatch_call.args, "title", "") = "--auto"
    /\ Len(tool_outcome.spawned) = 1
    /\ tool_outcome.spawned[1][1] = "gh"

-----------------------------------------------------------------------------
(* Confirmation before a branch is pushed or a pull request created *)

ConfirmTools == {"git_create_branch_and_push", "github_create_pr"}

\* the answers of the model that read y or yes once trimmed and lower-cased
YesAnswers == {<<"y">>, <<"Y">>, <<" ", "Y", "e", "s", " ">>, <<"y", "e", "s">>}

AbortedText(tool) ==
    IF tool = "git_create_branch_and_push" THEN "Branch creation aborted by user."
    ELSE "PR creation aborted by user."

\* C13: with the confirmation flag set, git_create_branch_and_push and
\* github_create_pr called with their required fields prompt the operator;
\* a subprocess is started only after the prompt and only if the answer,
\* trimmed and lower-cased, is y or yes; on every other answer the call
\* returns its "aborted by user" text and starts nothing.  (When the
\* operator's input is closed there is no answer: input() raises EOFError
\* and nothing is started.)
C13_SpawnOnlyAfterYes ==
    (/\ CONFIRM_PR_CREATION
     /\ tool_pc = "returned"
     /\ dispatch_call.name \in ConfirmTools
     /\ dispatch_call.args.type = "dict")
    => /\ ~MissingRequired(dispatch_call.name, dispatch_call.args) => tool_outcome.prompted
       /\ tool_outcome.spawned # <<>>
             => (tool_outcome.prompted /\ dispatch_call.env.answer \in YesAnswers)
       /\ (tool_outcome.prompted /\ dispatch_call.env.answer \in Answers \ YesAnswers)
             => /\ ~tool_outcome.raised
                /\ tool_outcome.value = AbortedText(dispatch_call.name)
                /\ tool_outcome.spawned = <<>>

\* the operator answers " Yes " and the branch is created and pushed
C13_Witness ==
    /\ tool_pc = "returned"
    /\ dispatch_call.name = "git_create_branch_and_push"
    /\ dispatch_call.env.answer = <<" ", "Y", "e", "s", " ">>
    /\ tool_outcome.prompted
    /\ Len(tool_outcome.spawned) = 2

-----------------------------------------------------------------------------
(* Shape of the conversation history sent with a request *)

\* message i answers an invocation: the closest earlier message that is not a
\* tool message is an assistant message, and message i names the invocation
\* at its distance from it
AnswersInvocation(history, i) ==
    \E j \in 1..(i - 1) :
        /\ history[j].role = "assistant"
        /\ \A k \in (j + 1)..i : history[k].role = "tool"
        /\ i - j <= Len(history[j].tool_calls)
        /\ history[i].name = history[j].tool_calls[i - j].name

\* assistant message i is followed by one tool message per invocation, in order
FullyAnswered(history, i) ==
    \A k \in 1..Len(history[i].tool_calls) :
        /\ i + k <= Len(history)
        /\ history[i + k].role = "tool"
        /\ history[i + k].name = history[i].tool_calls[k].name

WellFormed(history) ==
    \A i \in DOMAIN history :
        /\ history[i].role = "tool" => AnswersInvocation(history, i)
        /\ history[i].role = "assistant" => FullyAnswered(history, i)

\* C14: whenever the loop is about to send a request, after any sequence of
\* turns, abandoned ones included, the history is well-formed: every tool
\* message follows the most recent assistant message and names the invocation
\* it answers, and every assistant message with invocations is followed at
\* once by one tool message per invocation, in the same order.
C14_HistoryWellFormedAtRequest ==
    pc = "request" => WellFormed(messages)

=============================================================================
